---- MODULE Spec2Model ----
(***************************************************************************)
(* The Google Home MCP server: start-up, the tool-serving loop, shutdown.  *)
(*                                                                         *)
(* The repository holds three variants of the server:                      *)
(*   "legacy"    the single-file server with the inline switch             *)
(*               (src/src/types/index.ts),                                 *)
(*   "sdm"       the modular server over SDMService                        *)
(*               (src/unnamed/part_003, part_005:1-114, part_002),         *)
(*   "homegraph" the modular server over HomeGraphService                  *)
(*               (src/src/index.ts, part_005:115-282, services/homegraph). *)
(* A behaviour fixes one variant and serves call-tool requests against a   *)
(* vendor whose replies are chosen nondeterministically.                   *)
(*                                                                         *)
(* Five specifications share the actions:                                  *)
(*   Spec        a started server serving one call at a time, all inputs,  *)
(*   Main        main() from process start to process exit,                *)
(*   Concurrent  a started server with two calls in flight,                *)
(*   Listing     a started SDM or legacy server listing accounts of every  *)
(*               layout,                                                   *)
(*   Health      a started server whose health checks are registered,      *)
(*               replaced and run.                                         *)
(***************************************************************************)
EXTENDS Naturals, Sequences, FiniteSets, TLC

VARIABLES
    variant,    \* which server is running
    phase,      \* where main() stands: "created" | "initializing" | "verifying" |
                \* "connecting" | "serving" | "failed" | "stopping" | "exited"
    auth,       \* GoogleHomeServer.auth     : "client" | "null"
    backend,    \* GoogleHomeServer.sdm / .homegraph : "client" | "null"
    world,      \* the vendor's view of the account (outside the program)
    call,       \* the call-tool request being served
    other,      \* a second call-tool request, arrived while the first is suspended
    config,     \* what config.json holds
    server,     \* main's local variable server : "object" | "null"
    transport,  \* the stdio transport : "none" | "connected"
    token,      \* outcome of auth.getAccessToken() : "unverified" | "verified" | "rejected"
    signal,     \* the SIGINT handler has run
    exitCode,   \* the argument of process.exit : "none" | "0" | "1"
    errors,     \* metrics: some execute_tool_<name>_errors counter is above zero
    checks,     \* HealthCheck.checks: the registered checks, in insertion order
    health      \* the health_<check> gauges: the last results the interval published

vars == <<variant, phase, auth, backend, world, call, other, config, server,
          transport, token, signal, exitCode, errors, checks, health>>

----------------------------------------------------------------------------
(* JavaScript values that can arrive in an argument bag.  Every value is a *)
(* record [t, v]: t is the runtime type, v the text String(value) yields.  *)

Str(s)  == [t |-> "string", v |-> s]
Num(s)  == [t |-> "number", v |-> s]
Bool(b) == [t |-> "boolean", v |-> IF b THEN "true" ELSE "false"]
Absent  == [t |-> "undefined", v |-> "undefined"]

\* String(x): the text of x, as a string.
String(x) == [t |-> "string", v |-> x.v]

\* Boolean(x): JavaScript truthiness.
Boolean(x) ==
    CASE x.t = "boolean" -> x.v = "true"
      [] x.t = "string"  -> x.v # ""
      [] x.t = "number"  -> x.v \notin {"0", "NaN"}
      [] OTHER           -> FALSE

\* 'f' in args
In(f, args) == args[f] # Absent

\* !args : the request carried no arguments member at all.
NoArgs(args) == ~args.given

\* toolArgs || {}
OrEmpty(args) == IF args.given THEN args ELSE [args EXCEPT !.given = TRUE]

----------------------------------------------------------------------------
(* The tool catalogue and the dispatch table.                              *)

MethodNotFound == "MethodNotFound"
InvalidParams  == "InvalidParams"
InternalError  == "InternalError"
ParseError     == "ParseError"
InvalidRequest == "InvalidRequest"

ErrorCode == {ParseError, InvalidRequest, MethodNotFound, InvalidParams, InternalError}

Variants == {"legacy", "sdm", "homegraph"}

\* The tools advertised by list-tools: name -> inputSchema.
tools(v) ==
    IF v = "homegraph"
    THEN [list_smart_plugs |->
            [properties |-> [agentUserId |-> "string"],
             required   |-> {"agentUserId"}],
          control_smart_plug |->
            [properties |-> [agentUserId |-> "string", deviceId |-> "string",
                             state |-> "boolean"],
             required   |-> {"agentUserId", "deviceId", "state"}],
          get_smart_plug_state |->
            [properties |-> [agentUserId |-> "string", deviceId |-> "string"],
             required   |-> {"agentUserId", "deviceId"}]]
    ELSE [list_smart_plugs |->
            [properties |-> << >>,
             required   |-> {}],
          control_smart_plug |->
            [properties |-> [deviceId |-> "string", state |-> "boolean"],
             required   |-> {"deviceId", "state"}],
          get_smart_plug_state |->
            [properties |-> [deviceId |-> "string"],
             required   |-> {"deviceId"}]]

\* The own keys of the handlers object (the case labels of the legacy switch).
handlers == {"list_smart_plugs", "control_smart_plug", "get_smart_plug_state"}

\* Members every object literal inherits from Object.prototype; "constructor"
\* (the function Object) stands for them.
ObjectPrototype == {"constructor"}

\* handlers[name] / switch (name)
\*   "own"       a registered handler
\*   "inherited" a truthy member of Object.prototype (object lookup only)
\*   "none"      undefined / the default case
LegacySwitch(name) == IF name \in handlers THEN "own" ELSE "none"

ObjectLookup(name) ==
    IF name \in handlers THEN "own"
    ELSE IF name \in ObjectPrototype THEN "inherited"
    ELSE "none"

Lookup(v, name) == IF v = "legacy" THEN LegacySwitch(name) ELSE ObjectLookup(name)

----------------------------------------------------------------------------
(* Outcomes of a call, as they leave the call-tool request handler.        *)

NoData == [kind |-> "none"]

\* throw { code, message }  /  throw { code, message, data }
Structured(c, d) == [kind |-> "error", code |-> c, data |-> d]

\* a rejected vendor promise or a TypeError: an Error without taxonomy code
Raw(what) == [kind |-> "raw", what |-> what]

Result(content) == [kind |-> "result", content |-> content]


\* JSON.stringify(x): a string holding the JSON text of x; undefined for undefined.
Stringify(x) == IF x = Absent THEN Absent ELSE [t |-> "string", json |-> x]

\* Every content is a record tagged with its shape; an array holds its items.
Array(items) == [shape |-> "array", items |-> items]

TextContent(x) ==
    Array(<< [type |-> "text", text |-> Stringify(x), mimeType |-> "application/json"] >>)

----------------------------------------------------------------------------
(* The vendor.  An operation issued to the vendor client and its replies.  *)

NoTrait == "<none>"
OUTLET  == "sdm.devices.types.OUTLET"

\* the one plug of the account, as the SDM API reports it
PlugRecord(w) ==
    [name   |-> "X",
     type   |-> OUTLET,
     traits |-> [customName |-> w.customName, on |-> w.on, status |-> w.status]]

OtherRecord ==
    [name   |-> "T",
     type   |-> "sdm.devices.types.THERMOSTAT",
     traits |-> [customName |-> NoTrait, on |-> NoTrait, status |-> "ONLINE"]]

\* a second plug of the account
SecondPlug ==
    [name   |-> "Y",
     type   |-> OUTLET,
     traits |-> [customName |-> "Heater", on |-> "true", status |-> "OFFLINE"]]

\* response.data.devices of enterprises.devices.list; "none": the member is absent
DeviceList(w) ==
    CASE w.layout = "plug"     -> << PlugRecord(w) >>
      [] w.layout = "mixed"    -> << OtherRecord, PlugRecord(w) >>
      [] w.layout = "other"    -> << OtherRecord >>
      [] w.layout = "two"      -> << PlugRecord(w), SecondPlug >>
      [] w.layout = "reversed" -> << SecondPlug, OtherRecord, PlugRecord(w) >>
      [] OTHER                 -> << >>

\* the plug as the HomeGraph API names it; the query response reports its
\* on and status next to it
HGDevice == [kind |-> "device", id |-> "X", type |-> "action.devices.types.OUTLET", name |-> "Lamp"]

Op(api, id, on, user) == [api |-> api, id |-> id, on |-> on, user |-> user]
NoOp == Op("none", "", FALSE, "")

Ok(data)  == [r |-> "ok", data |-> data]
Rejected  == [r |-> "reject", data |-> NoData]

\* What the vendor can answer to an operation in world w.  Any call can be
\* rejected (network, 401, 404); a get of an id the vendor does not know is
\* either rejected or resolved without a device.
VendorReplies(op, w) ==
    CASE op.api = "sdm.list" ->
           {Ok([kind |-> "list", present |-> w.layout # "none", devices |-> DeviceList(w)]),
            Rejected}
      [] op.api = "sdm.executeCommand" ->
           IF op.id = "X" /\ w.layout \in {"plug", "mixed"} THEN {Ok(NoData), Rejected}
           ELSE {Rejected}
      [] op.api = "sdm.get" ->
           IF op.id = "X" /\ w.layout \in {"plug", "mixed"}
           THEN {Ok(PlugRecord(w)), Rejected}
           ELSE {Ok(NoData), Rejected}
      [] op.api = "hg.query" ->
           {Ok([kind |-> "query", shape |-> w.hgShape,
                has |-> w.layout \in {"plug", "mixed"},
                on  |-> IF w.layout \in {"plug", "mixed"} THEN w.on ELSE NoTrait,
                status |-> IF w.layout \in {"plug", "mixed"} THEN w.status ELSE NoTrait]),
            Rejected}
      [] op.api = "hg.reportState" -> {Ok(NoData), Rejected}
      [] OTHER -> {}

----------------------------------------------------------------------------
(* Steps of a handler: it throws, returns, or suspends on a vendor call.   *)

NoParams == [deviceId |-> "", state |-> FALSE, agentUserId |-> ""]

Throw(err)       == [t |-> "throw", out |-> err, op |-> NoOp, params |-> NoParams]
Return(content)  == [t |-> "return", out |-> Result(content), op |-> NoOp, params |-> NoParams]
Await(op, params) == [t |-> "await", out |-> NoData, op |-> op, params |-> params]

Thrown(o) == o.kind # "result"

\* SmartPlugDevice as SDMService builds it
Snapshot(device) ==
    [shape  |-> "device",
     id     |-> device.name,
     name   |-> IF device.traits.customName \notin {NoTrait, ""}
                THEN device.traits.customName ELSE device.name,
     type   |-> device.type,
     traits |-> device.traits,
     state  |-> [on     |-> device.traits.on = "true",
                 online |-> device.traits.status = "ONLINE"]]

\* the legacy get_smart_plug_state content: the same without traits
LegacySnapshot(device) ==
    [shape  |-> "device",
     id     |-> device.name,
     name   |-> IF device.traits.customName \notin {NoTrait, ""}
                THEN device.traits.customName ELSE device.name,
     type   |-> device.type,
     state  |-> [on     |-> device.traits.on = "true",
                 online |-> device.traits.status = "ONLINE"]]

\* a listing that keeps the devices of every type
SelectOutlets_All(devs) == devs

SelectOutlets(devs) == SelectSeq(devs, LAMBDA d : d.type = OUTLET)

MapSnapshot(devs) == [i \in 1..Len(devs) |-> Snapshot(devs[i])]

NotInitialized == Structured(InternalError, NoData)


----------------------------------------------------------------------------
(* The observability sink (logger.ts): MetricsCollector and                 *)
(* PerformanceMonitor.measureOperation.                                    *)

\* MetricsCollector.increment(metric) and .gauge(metric, value), as writes
\* to the sink
increment(metric) == [write |-> "increment", metric |-> metric]
gauge(metric)     == [write |-> "gauge", metric |-> metric]

\* by how much the writes raise a counter: each increment adds its default
\* value, one
Increments(writes, metric) ==
    Len(SelectSeq(writes, LAMBDA w : w = increment(metric)))

\* An operation settles with a thrown outcome or with a value.
Rejects(operation) == "kind" \in DOMAIN operation /\ Thrown(operation)

\* a measureOperation without its catch block
monitor_measureOperation_NoCatch(name, operation) ==
    IF ~Rejects(operation)
    THEN [settled |-> operation, invoked |-> 1,
          writes  |-> << gauge(name \o "_duration_ms"), increment(name \o "_total") >>]
    ELSE [settled |-> operation, invoked |-> 1, writes |-> << >>]

\* a measureOperation whose catch block wraps what it caught
monitor_measureOperation_Wrapping(name, operation) ==
    IF ~Rejects(operation)
    THEN [settled |-> operation, invoked |-> 1,
          writes  |-> << gauge(name \o "_duration_ms"), increment(name \o "_total") >>]
    ELSE [settled |-> Structured(InternalError, operation), invoked |-> 1,
          writes  |-> << increment(name \o "_errors") >>]

\* PerformanceMonitor.measureOperation(name, operation), operation being what
\* the one call of operation() in the try block settles with:
\*   try   { result = await operation(); gauge; increment _total; return result }
\*   catch { increment _errors; throw error }
monitor_measureOperation(name, operation) ==
    IF ~Rejects(operation)
    THEN [settled |-> operation, invoked |-> 1,
          writes  |-> << gauge(name \o "_duration_ms"), increment(name \o "_total") >>]
    ELSE [settled |-> operation, invoked |-> 1,
          writes  |-> << increment(name \o "_errors") >>]

\* logger.measureOperation (createLogger): what the wrapper's promise settles with
measureOperation(o) == monitor_measureOperation("operation", o).settled

----------------------------------------------------------------------------
(* HealthCheck (logger.ts): the registry of checks and performChecks.      *)
(* The registry is a Map: a sequence of entries [name, check] in insertion *)
(* order, one per name.  A check is named by what it does when called:     *)
(*   "memory"   resolves true or false, as the heap stands                 *)
(*   "auth"     resolves this.auth !== null                                *)
(*   "backend"  resolves this.homegraph !== null / this.sdm !== null       *)
(*   "throws"   throws, "rejects" returns a rejected promise               *)

Checks == {"memory", "auth", "backend", "throws", "rejects"}

NoChecks  == << >>
NoResults == [name \in {} |-> FALSE]

Names(registry) == {registry[i].name : i \in 1..Len(registry)}

\* what a call of the check settles with: "true", "false" or "thrown"
Run(check, heapOk, this) ==
    CASE check = "memory"  -> IF heapOk THEN "true" ELSE "false"
      [] check = "auth"    -> IF this.auth # "null" THEN "true" ELSE "false"
      [] check = "backend" -> IF this.backend # "null" THEN "true" ELSE "false"
      [] OTHER             -> "thrown"

\* registerCheck(name, check): this.checks.set(name, check)
registerCheck(registry, name, check) ==
    IF name \in Names(registry)
    THEN [i \in 1..Len(registry) |->
             IF registry[i].name = name THEN [name |-> name, check |-> check]
             ELSE registry[i]]
    ELSE Append(registry, [name |-> name, check |-> check])

\* a performChecks without the try/catch around check()
performChecks_NoCatch(registry, heapOk, this) ==
    IF \E i \in 1..Len(registry) : Run(registry[i].check, heapOk, this) = "thrown"
    THEN [settled |-> "rejected", results |-> NoResults]
    ELSE [settled |-> "resolved",
          results |-> [name \in Names(registry) |->
                          \E i \in 1..Len(registry) :
                              /\ registry[i].name = name
                              /\ Run(registry[i].check, heapOk, this) = "true"]]

\* performChecks(): for each entry, results[name] = await check(), and
\* results[name] = false in the catch; resolves with results
performChecks(registry, heapOk, this) ==
    [settled |-> "resolved",
     results |-> [name \in Names(registry) |->
                     \E i \in 1..Len(registry) :
                         /\ registry[i].name = name
                         /\ Run(registry[i].check, heapOk, this) = "true"]]

\* the registry once logger.ts is loaded
Loaded == registerCheck(NoChecks, "memory", "memory")

\* the name of the backend check
BackendCheck(v) == IF v = "homegraph" THEN "homegraph" ELSE "sdm"

\* the registrations of initialize
initialize_registerChecks(registry, v) ==
    registerCheck(registerCheck(registry, "auth", "auth"), BackendCheck(v), "backend")

----------------------------------------------------------------------------
(* SDMService (modular SDM server).  Each method is split at its await:    *)
(* _start runs up to the vendor call, _finish from the vendor's reply.     *)

listDevices_start(sdm) ==
    IF sdm = "null" THEN Throw(NotInitialized)
    ELSE Await(Op("sdm.list", "", FALSE, ""), NoParams)

\* response.data.devices || [], filter by type, map to snapshots
listDevices_try(reply) ==
    IF reply.r = "reject" THEN Raw("VendorError")
    ELSE Result(Array(MapSnapshot(SelectOutlets(reply.data.devices))))

listDevices_finish(reply) ==
    LET r == listDevices_try(reply)
    IN  IF Thrown(r) THEN Structured(InternalError, r) ELSE r

controlDevice_start(sdm, deviceId, state) ==
    IF sdm = "null" THEN Throw(NotInitialized)
    ELSE Await(Op("sdm.executeCommand", deviceId, state, ""),
               [deviceId |-> deviceId, state |-> state, agentUserId |-> ""])

controlDevice_try(reply) ==
    IF reply.r = "reject" THEN Raw("VendorError")
    ELSE Result([shape |-> "void"])

controlDevice_finish(reply) ==
    LET r == controlDevice_try(reply)
    IN  IF Thrown(r) THEN Structured(InternalError, r) ELSE r

getDeviceState_start(sdm, deviceId) ==
    IF sdm = "null" THEN Throw(NotInitialized)
    ELSE Await(Op("sdm.get", deviceId, FALSE, ""),
               [deviceId |-> deviceId, state |-> FALSE, agentUserId |-> ""])

\* the body of the try block: the not-found throw is inside it
getDeviceState_try(reply) ==
    IF reply.r = "reject" THEN Raw("VendorError")
    ELSE IF reply.data = NoData THEN Structured(InvalidParams, NoData)
    ELSE Result(Snapshot(reply.data))

\* catch (error) { throw { code: InternalError, ..., data: error } }
getDeviceState_finish(reply) ==
    LET r == getDeviceState_try(reply)
    IN  IF Thrown(r) THEN Structured(InternalError, r) ELSE r

----------------------------------------------------------------------------
(* handlers of the modular SDM server (tools/index.ts, SDM).               *)

ControlReport(params) ==
    [shape   |-> "control",
     success |-> TRUE,
     device  |-> [id    |-> params.deviceId,
                  state |-> [on |-> params.state, online |-> TRUE]]]

SDM_list_smart_plugs_start(sdm, args) == listDevices_start(sdm)

SDM_list_smart_plugs_finish(params, reply) == listDevices_finish(reply)

\* the validation without its check of state
SDM_control_smart_plug_start_NoStateCheck(sdm, args) ==
    IF NoArgs(args) \/ ~In("deviceId", args)
    THEN Throw(Structured(InvalidParams, NoData))
    ELSE controlDevice_start(sdm, String(args.deviceId).v, Boolean(args.state))

SDM_control_smart_plug_start(sdm, args) ==
    IF NoArgs(args) \/ ~In("deviceId", args) \/ ~In("state", args)
    THEN Throw(Structured(InvalidParams, NoData))
    ELSE controlDevice_start(sdm, String(args.deviceId).v, Boolean(args.state))

SDM_control_smart_plug_finish(params, reply) ==
    LET r == controlDevice_finish(reply)
    IN  IF Thrown(r) THEN r ELSE Result(ControlReport(params))

\* a validation that rejects fields the schema does not declare
SDM_get_smart_plug_state_start_Strict(sdm, args) ==
    IF NoArgs(args) \/ ~In("deviceId", args) \/ In("extra", args)
    THEN Throw(Structured(InvalidParams, NoData))
    ELSE getDeviceState_start(sdm, String(args.deviceId).v)

SDM_get_smart_plug_state_start(sdm, args) ==
    IF NoArgs(args) \/ ~In("deviceId", args)
    THEN Throw(Structured(InvalidParams, NoData))
    ELSE getDeviceState_start(sdm, String(args.deviceId).v)

SDM_get_smart_plug_state_finish(params, reply) == getDeviceState_finish(reply)


----------------------------------------------------------------------------
(* The legacy single-file server: the cases of the inline switch.          *)

\* .filter(device => device.type === OUTLET && device.name)
LegacySelectOutlets(devs) == SelectSeq(devs, LAMBDA d : d.type = OUTLET /\ d.name # "")

getSmartPlugs_start(sdm) ==
    IF sdm = "null" THEN Throw(NotInitialized)
    ELSE Await(Op("sdm.list", "", FALSE, ""), NoParams)

getSmartPlugs_try(reply) ==
    IF reply.r = "reject" THEN Raw("VendorError")
    ELSE Result(Array(MapSnapshot(LegacySelectOutlets(reply.data.devices))))

getSmartPlugs_finish(reply) ==
    LET r == getSmartPlugs_try(reply)
    IN  measureOperation(IF Thrown(r) THEN Structured(InternalError, r) ELSE r)

Legacy_control_smart_plug_start(sdm, args) ==
    IF NoArgs(args) \/ ~In("deviceId", args) \/ ~In("state", args)
    THEN Throw(Structured(InvalidParams, NoData))
    ELSE LET params == [deviceId |-> String(args.deviceId).v,
                        state |-> Boolean(args.state), agentUserId |-> ""]
         IN  IF sdm = "null" THEN Throw(NotInitialized)
             ELSE Await(Op("sdm.executeCommand", params.deviceId, params.state, ""), params)

Legacy_control_smart_plug_finish(params, reply) ==
    IF reply.r = "reject" THEN Structured(InternalError, Raw("VendorError"))
    ELSE Result(ControlReport(params))

Legacy_get_smart_plug_state_start(sdm, args) ==
    IF NoArgs(args) \/ ~In("deviceId", args)
    THEN Throw(Structured(InvalidParams, NoData))
    ELSE LET params == [deviceId |-> String(args.deviceId).v,
                        state |-> FALSE, agentUserId |-> ""]
         IN  IF sdm = "null" THEN Throw(NotInitialized)
             ELSE Await(Op("sdm.get", params.deviceId, FALSE, ""), params)

Legacy_get_smart_plug_state_try(reply) ==
    IF reply.r = "reject" THEN Raw("VendorError")
    ELSE IF reply.data = NoData THEN Structured(InvalidParams, NoData)
    ELSE Result(LegacySnapshot(reply.data))

Legacy_get_smart_plug_state_finish(params, reply) ==
    LET r == Legacy_get_smart_plug_state_try(reply)
    IN  IF Thrown(r) THEN Structured(InternalError, r) ELSE r

----------------------------------------------------------------------------
(* HomeGraphService and the handlers of the HomeGraph server.              *)

\* a method call on this.homegraph! when the reference is null
NullDereference == Raw("TypeError")

queryDevices_start(homegraph, agentUserId, params) ==
    IF homegraph = "null" THEN Throw(NullDereference)
    ELSE Await(Op("hg.query", "", FALSE, agentUserId), params)

\* catch (error) { ...; throw error }
queryDevices_finish(reply) ==
    measureOperation(IF reply.r = "reject" THEN Raw("VendorError") ELSE Result(reply.data))

reportState_start(homegraph, agentUserId, deviceId, state, params) ==
    IF homegraph = "null" THEN Throw(NullDereference)
    ELSE Await(Op("hg.reportState", deviceId, state, agentUserId), params)

reportState_finish(reply) ==
    measureOperation(IF reply.r = "reject" THEN Raw("VendorError") ELSE Result(reply.data))

HG_list_smart_plugs_start(homegraph, args) ==
    LET agentUserId == String(args.agentUserId).v
    IN  queryDevices_start(homegraph, agentUserId,
                           [deviceId |-> "", state |-> FALSE, agentUserId |-> agentUserId])

HG_list_smart_plugs_finish(params, reply) ==
    LET r == queryDevices_finish(reply)
    IN  IF Thrown(r) THEN r ELSE Result(TextContent(r.content))

HG_control_smart_plug_start(homegraph, args) ==
    IF NoArgs(args) \/ ~In("deviceId", args) \/ ~In("state", args) \/ ~In("agentUserId", args)
    THEN Throw(Structured(InvalidParams, NoData))
    ELSE LET params == [deviceId    |-> String(args.deviceId).v,
                        state       |-> Boolean(args.state),
                        agentUserId |-> String(args.agentUserId).v]
         IN  reportState_start(homegraph, params.agentUserId, params.deviceId,
                               params.state, params)

HG_control_smart_plug_finish(params, reply) ==
    LET r == reportState_finish(reply)
    IN  IF Thrown(r) THEN r
        ELSE Result(TextContent([success  |-> TRUE,
                                 deviceId |-> params.deviceId,
                                 state    |-> params.state]))

HG_get_smart_plug_state_start(homegraph, args) ==
    IF NoArgs(args) \/ ~In("deviceId", args) \/ ~In("agentUserId", args)
    THEN Throw(Structured(InvalidParams, NoData))
    ELSE LET params == [deviceId    |-> String(args.deviceId).v,
                        state       |-> FALSE,
                        agentUserId |-> String(args.agentUserId).v]
         IN  queryDevices_start(homegraph, params.agentUserId, params)

\* Array.isArray(payload?.devices) ? payload.devices : [],  then find by id
\* the element of payload.devices for the plug, as the vendor sent it
HGEntry(data) ==
    [kind |-> HGDevice.kind, id |-> HGDevice.id, type |-> HGDevice.type,
     name |-> HGDevice.name, on |-> data.on, status |-> data.status]

HG_find(data, deviceId) ==
    IF data.shape = "array" /\ data.has /\ deviceId = HGDevice.id
    THEN HGEntry(data) ELSE Absent

HG_get_smart_plug_state_finish(params, reply) ==
    LET r == queryDevices_finish(reply)
    IN  IF Thrown(r) THEN r
        ELSE Result(TextContent(HG_find(r.content, params.deviceId)))


----------------------------------------------------------------------------
(* GoogleHomeServer.setupTools: the call-tool request handler, split at    *)
(* the handler's vendor call.                                              *)

UnknownTool == Throw(Structured(MethodNotFound, NoData))

\* legacy: switch (name) with the handlers inline
Legacy_setupTools_start(sdm, name, args) ==
    CASE name = "list_smart_plugs"     -> getSmartPlugs_start(sdm)
      [] name = "control_smart_plug"   -> Legacy_control_smart_plug_start(sdm, args)
      [] name = "get_smart_plug_state" -> Legacy_get_smart_plug_state_start(sdm, args)
      [] OTHER                         -> UnknownTool

\* modular SDM: return handler(this.sdm, args)
\* An inherited member is called as a handler: Object(sdm, args) returns an
\* object, which becomes the result of the call.
SDM_setupTools_start(sdm, name, args) ==
    LET handler == Lookup("sdm", name)
    IN  CASE handler = "none"      -> UnknownTool
          [] handler = "inherited" -> Return([shape |-> "object"])
          [] name = "list_smart_plugs"     -> SDM_list_smart_plugs_start(sdm, args)
          [] name = "control_smart_plug"   -> SDM_control_smart_plug_start(sdm, args)
          [] name = "get_smart_plug_state" -> SDM_get_smart_plug_state_start(sdm, args)

\* HomeGraph: response = await handler(this.homegraph!, toolArgs || {})
\* An inherited member returns an object without content: response.content.length
\* is a TypeError.
HG_setupTools_start(homegraph, name, args) ==
    LET handler == Lookup("homegraph", name)
    IN  CASE handler = "none"      -> UnknownTool
          [] handler = "inherited" -> Throw(Raw("TypeError"))
          [] name = "list_smart_plugs"     -> HG_list_smart_plugs_start(homegraph, OrEmpty(args))
          [] name = "control_smart_plug"   -> HG_control_smart_plug_start(homegraph, OrEmpty(args))
          [] name = "get_smart_plug_state" -> HG_get_smart_plug_state_start(homegraph, OrEmpty(args))

setupTools_start(v, ref, name, args) ==
    CASE v = "legacy"    -> Legacy_setupTools_start(ref, name, args)
      [] v = "sdm"       -> SDM_setupTools_start(ref, name, args)
      [] v = "homegraph" -> HG_setupTools_start(ref, name, args)

Legacy_setupTools_finish(name, params, reply) ==
    CASE name = "list_smart_plugs"     -> getSmartPlugs_finish(reply)
      [] name = "control_smart_plug"   -> Legacy_control_smart_plug_finish(params, reply)
      [] name = "get_smart_plug_state" -> Legacy_get_smart_plug_state_finish(params, reply)

SDM_setupTools_finish(name, params, reply) ==
    CASE name = "list_smart_plugs"     -> SDM_list_smart_plugs_finish(params, reply)
      [] name = "control_smart_plug"   -> SDM_control_smart_plug_finish(params, reply)
      [] name = "get_smart_plug_state" -> SDM_get_smart_plug_state_finish(params, reply)

\* return { content: response.content }
HG_setupTools_finish(name, params, reply) ==
    CASE name = "list_smart_plugs"     -> HG_list_smart_plugs_finish(params, reply)
      [] name = "control_smart_plug"   -> HG_control_smart_plug_finish(params, reply)
      [] name = "get_smart_plug_state" -> HG_get_smart_plug_state_finish(params, reply)

setupTools_finish(v, name, params, reply) ==
    CASE v = "legacy"    -> Legacy_setupTools_finish(name, params, reply)
      [] v = "sdm"       -> SDM_setupTools_finish(name, params, reply)
      [] v = "homegraph" -> HG_setupTools_finish(name, params, reply)

----------------------------------------------------------------------------
(* Requests and the vendor's account.                                      *)

NotATool == "not_a_tool"

ToolNames == handlers \cup {NotATool} \cup ObjectPrototype

NoArguments ==
    [given |-> FALSE, agentUserId |-> Absent, deviceId |-> Absent,
     state |-> Absent, extra |-> Absent]

ArgBags ==
    {NoArguments} \cup
    [given       : {TRUE},
     agentUserId : {Absent, Str("u")},
     deviceId    : {Absent, Str("X"), Str("Y"), Num("7")},
     state       : {Absent, Bool(TRUE), Bool(FALSE), Str("false"), Num("0")},
     extra       : {Absent, Str("z")}]

\* The correlation ids a client puts on its requests.
RequestIds == {"a", "b"}

Idle ==
    [pc |-> "idle", id |-> "", name |-> "", args |-> NoArguments, ref |-> "null",
     op |-> NoOp, params |-> NoParams, reply |-> Rejected, outcome |-> NoData,
     issued |-> << >>, writes |-> << >>]

\* The traits the vendor may report for the plug.
PlugStates ==
    {[customName |-> "Lamp",  on |-> "false", status |-> "ONLINE"],
     [customName |-> "Lamp",  on |-> "true",  status |-> "ONLINE"],
     [customName |-> NoTrait, on |-> "true",  status |-> "OFFLINE"],
     [customName |-> NoTrait, on |-> "false", status |-> "OFFLINE"],
     [customName |-> "",      on |-> NoTrait, status |-> NoTrait]}

\* The account: which devices it holds, and how HomeGraph shapes payload.devices.
Worlds(v) ==
    [layout     : IF v = "homegraph" THEN {"empty", "plug"}
                  ELSE {"none", "empty", "plug", "mixed"},
     hgShape    : IF v = "homegraph" THEN {"array", "map", "absent"} ELSE {"absent"},
     customName : {"Lamp"},
     on         : {"false"},
     status     : {"ONLINE"}]

\* config.json: whether it can be read and parsed, and which members it holds.
Configs ==
    [readable : BOOLEAN, refreshToken : BOOLEAN, clientId : BOOLEAN,
     clientSecret : BOOLEAN]

Complete ==
    [readable |-> TRUE, refreshToken |-> TRUE, clientId |-> TRUE, clientSecret |-> TRUE]

\* the answers of auth.getAccessToken()
TokenReplies == {"verified", "rejected"}

\* the variables of the process, as opposed to the vendor's and the client's
Process == <<variant, phase, auth, backend, config, server, transport, token,
             signal, exitCode, checks, health>>

\* main() has run to its end: the server is initialized and connected.
Started ==
    /\ phase = "serving"
    /\ auth = "client"
    /\ backend = "client"
    /\ config = Complete
    /\ server = "object"
    /\ transport = "connected"
    /\ token = (IF variant = "legacy" THEN "unverified" ELSE "verified")
    /\ signal = FALSE
    /\ exitCode = "none"
    /\ errors = FALSE
    /\ checks = initialize_registerChecks(Loaded, variant)
    /\ health = NoResults

Init ==
    /\ variant \in Variants
    /\ Started
    /\ world \in Worlds(variant)
    /\ call = Idle
    /\ other = Idle

----------------------------------------------------------------------------
(* The tool-serving loop.                                                  *)

\* the name under which the call-tool handler measures a call
execute_tool(name) == "execute_tool_" \o name

\* The call-tool request handler runs up to its first vendor call; ref is
\* the reference it hands to the tool's handler.  The operation counts the
\* call under tool_execution_<name> before it looks the handler up.
Dispatch(id, name, args) ==
    LET step     == setupTools_start(variant, backend, name, args)
        measured == monitor_measureOperation(execute_tool(name), step.out)
    IN  IF step.t = "await"
        THEN [pc |-> "await", id |-> id, name |-> name, args |-> args, ref |-> backend,
              op |-> step.op, params |-> step.params, reply |-> Rejected,
              outcome |-> NoData, issued |-> << step.op >>,
              writes |-> << increment("tool_execution_" \o name) >>]
        ELSE [pc |-> "done", id |-> id, name |-> name, args |-> args, ref |-> backend,
              op |-> NoOp, params |-> NoParams, reply |-> Rejected,
              outcome |-> measured.settled, issued |-> << >>,
              writes |-> << increment("tool_execution_" \o name) >> \o measured.writes]

\* The handler of a suspended call runs from the vendor's reply to its end.
Settle(c, reply) ==
    LET measured == monitor_measureOperation(
                        execute_tool(c.name),
                        setupTools_finish(variant, c.name, c.params, reply))
    IN  [c EXCEPT !.pc = "done",
                  !.reply = reply,
                  !.outcome = measured.settled,
                  !.writes = @ \o measured.writes]

\* measureOperation's catch: metrics.increment(`${name}_errors`)
Counted(c) == errors \/ (c.pc = "done" /\ Thrown(c.outcome))

\* A call-tool request arrives and runs up to its first vendor call.
CallTool(id, name, args) ==
    /\ phase = "serving"
    /\ call.pc = "idle"
    /\ other.pc = "idle"
    /\ call' = Dispatch(id, name, args)
    /\ errors' = Counted(call')
    /\ UNCHANGED <<Process, world, other>>

\* An accepted on/off command may or may not have flipped the plug.
AfterCommand(w, op, reply) ==
    IF op.api = "sdm.executeCommand" /\ reply.r = "ok" /\ w.on # NoTrait
    THEN {w, [w EXCEPT !.on = IF op.on THEN "true" ELSE "false"]}
    ELSE {w}

\* a server whose failing handler takes the process down with it
VendorReply_Fatal(reply) ==
    /\ phase = "serving"
    /\ call.pc = "await"
    /\ reply \in VendorReplies(call.op, world)
    /\ call' = Settle(call, reply)
    /\ errors' = Counted(call')
    /\ world' \in AfterCommand(world, call.op, reply)
    /\ phase' = (IF Thrown(call'.outcome) THEN "failed" ELSE phase)
    /\ UNCHANGED <<checks, health, variant, auth, backend, config, server, transport, token, signal,
                   exitCode, other>>

\* a server that answers from the device data it read at start-up
VendorReply_Cached(reply) ==
    /\ phase = "serving"
    /\ call.pc = "await"
    /\ reply \in VendorReplies(call.op, world)
    /\ call' = Settle(call, CHOOSE r \in VendorReplies(call.op,
                                          [world EXCEPT !.customName = "Lamp",
                                                        !.on = "false",
                                                        !.status = "ONLINE"]) :
                                r.r = reply.r)
    /\ errors' = Counted(call')
    /\ world' \in AfterCommand(world, call.op, reply)
    /\ UNCHANGED <<Process, other>>

\* The vendor answers; the handler runs to its end.
VendorReply(reply) ==
    /\ phase = "serving"
    /\ call.pc = "await"
    /\ reply \in VendorReplies(call.op, world)
    /\ call' = Settle(call, reply)
    /\ errors' = Counted(call')
    /\ world' \in AfterCommand(world, call.op, reply)
    /\ UNCHANGED <<Process, other>>

\* The plug changes outside the system.
EnvChange ==
    /\ phase = "serving"
    /\ \E p \in PlugStates :
          /\ world' = [world EXCEPT !.customName = p.customName, !.on = p.on,
                                    !.status = p.status]
          /\ world' # world
    /\ UNCHANGED <<Process, errors, call, other>>

\* The outcome has been handed to the protocol layer; the call's state is dropped.
Respond ==
    /\ phase = "serving"
    /\ call.pc = "done"
    /\ call' = Idle
    /\ UNCHANGED <<Process, errors, world, other>>

\* A second request arrives while the first is suspended at its vendor call.
CallToolOther(id, name, args) ==
    /\ phase = "serving"
    /\ call.pc = "await"
    /\ other.pc = "idle"
    /\ id # call.id
    /\ other' = Dispatch(id, name, args)
    /\ errors' = Counted(other')
    /\ UNCHANGED <<Process, world, call>>

\* a handler that keeps its parameters in a field shared by all calls
VendorReplyOther_Shared(reply) ==
    /\ phase = "serving"
    /\ other.pc = "await"
    /\ reply \in VendorReplies(other.op, world)
    /\ other' = Settle([other EXCEPT !.params = call.params], reply)
    /\ errors' = Counted(other')
    /\ world' \in AfterCommand(world, other.op, reply)
    /\ UNCHANGED <<Process, call>>

VendorReplyOther(reply) ==
    /\ phase = "serving"
    /\ other.pc = "await"
    /\ reply \in VendorReplies(other.op, world)
    /\ other' = Settle(other, reply)
    /\ errors' = Counted(other')
    /\ world' \in AfterCommand(world, other.op, reply)
    /\ UNCHANGED <<Process, call>>

RespondOther ==
    /\ phase = "serving"
    /\ other.pc = "done"
    /\ other' = Idle
    /\ UNCHANGED <<Process, errors, world, call>>

----------------------------------------------------------------------------
(* Start-up and shutdown: main(), GoogleHomeServer.initialize, setupAuth,  *)
(* cleanup.  The SIGINT handler and the catch block of main run without    *)
(* yielding to the event loop, so nothing interleaves with them.           *)

\* the two references of the server object
This == [auth |-> auth, backend |-> backend]

\* a cleanup that releases the credential only together with a backend
cleanup_BackendFirst(this) ==
    IF this.backend = "null" THEN this
    ELSE [this EXCEPT !.backend = "null", !.auth = "null"]

\* GoogleHomeServer.cleanup
cleanup(this) == measureOperation([this EXCEPT !.backend = "null", !.auth = "null"])

\* if (server) { await server.cleanup() }
IfServerCleanup(srv, this) == IF srv # "null" THEN cleanup(this) ELSE this

\* a setupAuth that checks refreshToken only and verifies nothing
setupAuth_start_Unchecked(v, cfg) ==
    IF ~cfg.refreshToken
    THEN [t |-> "throw", auth |-> "null", backend |-> "null"]
    ELSE [t |-> "return", auth |-> "client", backend |-> "client"]

\* setupAuth up to its await: the checks of the configuration and the
\* construction of the OAuth2 client.  The legacy server checks refreshToken
\* only, awaits nothing and builds the SDM client at once.
setupAuth_start(v, cfg) ==
    IF ~cfg.refreshToken
    THEN [t |-> "throw", auth |-> "null", backend |-> "null"]
    ELSE IF v = "legacy"
    THEN [t |-> "return", auth |-> "client", backend |-> "client"]
    ELSE IF ~cfg.clientId \/ ~cfg.clientSecret
    THEN [t |-> "throw", auth |-> "null", backend |-> "null"]
    ELSE [t |-> "await", auth |-> "client", backend |-> "null"]

\* server = new GoogleHomeServer(): the constructor reads config.json.
new_GoogleHomeServer ==
    /\ phase = "created"
    /\ IF config.readable
       THEN server' = "object" /\ phase' = "initializing"
       ELSE server' = server /\ phase' = "failed"
    /\ UNCHANGED <<checks, health, variant, auth, backend, config, transport, token, signal, exitCode,
                   errors, world, call, other>>

\* await server.initialize(), up to the await of getAccessToken
initialize_start ==
    /\ phase = "initializing"
    /\ LET step == setupAuth_start(variant, config)
       IN  /\ auth' = step.auth
           /\ backend' = step.backend
           /\ phase' = CASE step.t = "throw"  -> "failed"
                         [] step.t = "await"  -> "verifying"
                         [] step.t = "return" -> "connecting"
           /\ checks' = (IF step.t = "return" THEN initialize_registerChecks(checks, variant)
                         ELSE checks)
    /\ UNCHANGED <<health, variant, config, server, transport, token, signal, exitCode,
                   errors, world, call, other>>

\* getAccessToken settles: setupAuth ends, initialize builds the backend
\* (this.sdm / this.homegraph) and registers the tools and the health checks.
initialize_finish(reply) ==
    /\ phase = "verifying"
    /\ token' = reply
    /\ IF reply = "verified"
       THEN /\ backend' = "client"
            /\ phase' = "connecting"
            /\ checks' = initialize_registerChecks(checks, variant)
       ELSE /\ backend' = backend
            /\ phase' = "failed"
            /\ checks' = checks
    /\ UNCHANGED <<health, variant, auth, config, server, transport, signal, exitCode,
                   errors, world, call, other>>

\* how super.connect(transport) settles
ConnectReplies == {"connected", "failed"}

\* await server.connect(new StdioServerTransport())
connect(reply) ==
    /\ phase = "connecting"
    /\ IF reply = "connected"
       THEN transport' = "connected" /\ phase' = "serving"
       ELSE transport' = transport /\ phase' = "failed"
    /\ UNCHANGED <<checks, health, variant, auth, backend, config, server, token, signal, exitCode,
                   errors, world, call, other>>

\* a catch block that starts the server again
main_catch_Retry ==
    /\ phase = "failed"
    /\ auth' = IfServerCleanup(server, This).auth
    /\ backend' = IfServerCleanup(server, This).backend
    /\ phase' = (IF server # "null" THEN "initializing" ELSE "stopping")
    /\ UNCHANGED <<checks, health, variant, config, server, transport, token, signal, exitCode,
                   errors, world, call, other>>

\* a catch block that exits without cleaning up
main_catch_NoCleanup ==
    /\ phase = "failed"
    /\ phase' = "stopping"
    /\ UNCHANGED <<checks, health, variant, auth, backend, config, server, transport, token, signal,
                   exitCode, errors, world, call, other>>

\* the catch block of main, up to process.exit(1)
main_catch ==
    /\ phase = "failed"
    /\ auth' = IfServerCleanup(server, This).auth
    /\ backend' = IfServerCleanup(server, This).backend
    /\ phase' = "stopping"
    /\ UNCHANGED <<checks, health, variant, config, server, transport, token, signal, exitCode,
                   errors, world, call, other>>

\* The points at which main has yielded to the event loop, so that a signal
\* can be delivered: its awaits of getAccessToken and of connect, and serving.
\* (The handlers are registered, the server constructed and the configuration
\* checked in one synchronous run.)
Interruptible == {"verifying", "connecting", "serving"}

\* a handler that exits without cleaning up
SIGINT_NoCleanup ==
    /\ phase \in Interruptible
    /\ signal' = TRUE
    /\ phase' = "stopping"
    /\ UNCHANGED <<checks, health, variant, auth, backend, config, server, transport, token, exitCode,
                   errors, world, call, other>>

\* process.on('SIGINT', ...), up to process.exit(0)
SIGINT ==
    /\ phase \in Interruptible
    /\ signal' = TRUE
    /\ auth' = IfServerCleanup(server, This).auth
    /\ backend' = IfServerCleanup(server, This).backend
    /\ phase' = "stopping"
    /\ UNCHANGED <<checks, health, variant, config, server, transport, token, exitCode,
                   errors, world, call, other>>

\* a handler that cleans up and leaves the process serving
exit_KeepServing ==
    /\ phase = "stopping"
    /\ phase' = (IF transport = "connected" THEN "serving" ELSE "exited")
    /\ exitCode' = (IF transport = "connected" THEN exitCode ELSE "1")
    /\ UNCHANGED <<checks, health, variant, auth, backend, config, server, transport, token, signal,
                   errors, world, call, other>>

\* process.exit(0) in the SIGINT handler, process.exit(1) in main's catch:
\* the process, with any call in flight, is gone.
exit ==
    /\ phase = "stopping"
    /\ exitCode' = (IF signal THEN "0" ELSE "1")
    /\ phase' = "exited"
    /\ call' = Idle
    /\ other' = Idle
    /\ UNCHANGED <<checks, health, variant, auth, backend, config, server, transport, token, signal,
                   errors, world>>

\* The callback of the health-check interval main sets up once connected:
\* performChecks, then one health_<check> gauge per entry of the result.  A
\* rejection is logged (modular servers) and publishes nothing.
HealthInterval(heapOk) ==
    /\ phase = "serving"
    /\ LET healthStatus == performChecks(checks, heapOk, This)
       IN  health' = (IF healthStatus.settled = "resolved"
                      THEN [name \in DOMAIN health \cup DOMAIN healthStatus.results |->
                               IF name \in DOMAIN healthStatus.results
                               THEN healthStatus.results[name] ELSE health[name]]
                      ELSE health)
    /\ UNCHANGED <<checks, variant, phase, auth, backend, config, server, transport,
                   token, signal, exitCode, errors, world, call, other>>

\* Some part of the program registers a check.
RegisterCheck(name, check) ==
    /\ phase = "serving"
    /\ checks' = registerCheck(checks, name, check)
    /\ UNCHANGED <<health, variant, phase, auth, backend, config, server, transport,
                   token, signal, exitCode, errors, world, call, other>>

\* The connection state the position of main amounts to: Created at process
\* start, Initializing from the construction of the server to the connection
\* of the transport, Ready while serving, Stopping from the entry of main's
\* catch or of the SIGINT handler, Stopped once process.exit has been called.
Lifecycle == << "Created", "Initializing", "Ready", "Stopping", "Stopped" >>

ConnectionState(p) ==
    CASE p = "created"                                      -> "Created"
      [] p \in {"initializing", "verifying", "connecting"} -> "Initializing"
      [] p = "serving"                                      -> "Ready"
      [] p \in {"failed", "stopping"}                       -> "Stopping"
      [] p = "exited"                                       -> "Stopped"

----------------------------------------------------------------------------
(* The specifications.                                                     *)

Next ==
    \/ \E name \in ToolNames, args \in ArgBags : CallTool("a", name, args)
    \/ \E reply \in VendorReplies(call.op, world) : VendorReply(reply)
    \/ Respond
    \/ EnvChange
    \/ SIGINT
    \/ exit

Spec == Init /\ [][Next]_vars

\* main() from the start of the process.
ValidBag ==
    [given |-> TRUE, agentUserId |-> Str("u"), deviceId |-> Str("X"),
     state |-> Bool(TRUE), extra |-> Absent]

MainTools == {"list_smart_plugs", "control_smart_plug", NotATool}
MainArgs  == {NoArguments, ValidBag}

MainWorlds(v) == {w \in Worlds(v) : w.layout = "plug" /\ w.hgShape \in {"array", "absent"}}

MainInit ==
    /\ variant \in Variants
    /\ phase = "created"
    /\ auth = "null"
    /\ backend = "null"
    /\ config \in Configs
    /\ server = "null"
    /\ transport = "none"
    /\ token = "unverified"
    /\ signal = FALSE
    /\ exitCode = "none"
    /\ errors = FALSE
    /\ checks = Loaded
    /\ health = NoResults
    /\ world \in MainWorlds(variant)
    /\ call = Idle
    /\ other = Idle

MainNext ==
    \/ new_GoogleHomeServer
    \/ initialize_start
    \/ \E reply \in TokenReplies : initialize_finish(reply)
    \/ \E reply \in ConnectReplies : connect(reply)
    \/ main_catch
    \/ SIGINT
    \/ exit
    \/ \E id \in RequestIds, name \in MainTools, args \in MainArgs : CallTool(id, name, args)
    \/ \E reply \in VendorReplies(call.op, world) : VendorReply(reply)
    \/ Respond
    \/ \E heapOk \in BOOLEAN : HealthInterval(heapOk)

Main == MainInit /\ [][MainNext]_vars

\* A started server with two control_smart_plug requests in flight.
ConcurrentArgs ==
    [given : {TRUE}, agentUserId : {Str("u")}, deviceId : {Str("X"), Str("Y")},
     state : {Bool(TRUE), Bool(FALSE)}, extra : {Absent}]

ConcurrentInit ==
    /\ variant \in Variants
    /\ Started
    /\ world \in MainWorlds(variant)
    /\ call = Idle
    /\ other = Idle

ConcurrentNext ==
    \/ \E id \in RequestIds, args \in ConcurrentArgs :
          CallTool(id, "control_smart_plug", args)
    \/ \E id \in RequestIds, args \in ConcurrentArgs :
          CallToolOther(id, "control_smart_plug", args)
    \/ \E reply \in VendorReplies(call.op, world) : VendorReply(reply)
    \/ \E reply \in VendorReplies(other.op, world) : VendorReplyOther(reply)
    \/ Respond
    \/ RespondOther

Concurrent == ConcurrentInit /\ [][ConcurrentNext]_vars

\* A started SDM or legacy server listing the plugs of accounts of every
\* layout.
ListingLayouts == {"none", "empty", "other", "plug", "mixed", "two", "reversed"}

ListingWorlds ==
    [layout : ListingLayouts, hgShape : {"absent"}, customName : {"Lamp"},
     on : {"false"}, status : {"ONLINE"}]

ListingArgs == {a \in ArgBags : a.deviceId = Absent /\ a.state = Absent}

ListingInit ==
    /\ variant \in {"legacy", "sdm"}
    /\ Started
    /\ world \in ListingWorlds
    /\ call = Idle
    /\ other = Idle

ListingNext ==
    \/ \E args \in ListingArgs : CallTool("a", "list_smart_plugs", args)
    \/ \E reply \in VendorReplies(call.op, world) : VendorReply(reply)
    \/ Respond
    \/ EnvChange

Listing == ListingInit /\ [][ListingNext]_vars

\* A started server whose health checks are registered, replaced and run.
CheckNames == {"memory", "auth", "disk"}

HealthInit ==
    /\ variant \in Variants
    /\ Started
    /\ world \in MainWorlds(variant)
    /\ call = Idle
    /\ other = Idle

HealthNext ==
    \/ \E name \in CheckNames, check \in Checks : RegisterCheck(name, check)
    \/ \E heapOk \in BOOLEAN : HealthInterval(heapOk)

Health == HealthInit /\ [][HealthNext]_vars


----------------------------------------------------------------------------
(* Properties.                                                             *)

Done     == call.pc = "done"
Failed   == Done /\ call.outcome.kind # "result"
FailedWith(code) == Done /\ call.outcome.kind = "error" /\ call.outcome.code = code
NoBackendOp == call.issued = << >>

\* C1: a call-tool request naming no registered tool fails with
\* MethodNotFound and issues no backend operation.
C1_UnknownToolMethodNotFound ==
    (Done /\ call.name \notin handlers) => (FailedWith(MethodNotFound) /\ NoBackendOp)

\* C2: control_smart_plug with deviceId but without state fails with
\* InvalidParams, and no backend operation is ever issued for such a call.
MissingState ==
    /\ call.pc # "idle"
    /\ call.name = "control_smart_plug"
    /\ In("deviceId", call.args)
    /\ ~In("state", call.args)

C2_MissingStateInvalidParams ==
    MissingState => (FailedWith(InvalidParams) /\ NoBackendOp)

C2_Witness ==
    MissingState /\ Done /\ call.args.agentUserId = Str("u")

\* the device the call asked for does not exist, says the vendor
ReportedMissing ==
    /\ Done
    /\ call.name = "get_smart_plug_state"
    /\ call.reply.r = "ok"
    /\ \/ call.op.api = "sdm.get" /\ call.reply.data = NoData
       \/ call.op.api = "hg.query" /\ HG_find(call.reply.data, call.params.deviceId) = Absent

\* C3: get_smart_plug_state for a device the backend reports as not existing
\* fails with InvalidParams.
C3_NotFoundInvalidParams == ReportedMissing => FailedWith(InvalidParams)

\* C4: a control_smart_plug({deviceId: X, state: s}) call whose backend
\* command succeeds returns success:true, device.id = X, device.state.on = s
\* and device.state.online = true.
ControlSucceeded ==
    /\ Done
    /\ call.name = "control_smart_plug"
    /\ call.args.deviceId.t = "string"
    /\ call.args.state.t = "boolean"
    /\ call.issued # << >>
    /\ call.reply.r = "ok"

C4_OptimisticReport ==
    ControlSucceeded =>
        /\ call.outcome.kind = "result"
        /\ call.outcome.content.shape = "control"
        /\ call.outcome.content.success
        /\ call.outcome.content.device.id = call.args.deviceId.v
        /\ call.outcome.content.device.state.on = (call.args.state = Bool(TRUE))
        /\ call.outcome.content.device.state.online

\* an element of a result array with boolean state.on and state.online
HasBooleanState(e) ==
    /\ "state" \in DOMAIN e
    /\ e.state.on \in BOOLEAN
    /\ e.state.online \in BOOLEAN

EmptyBag == [NoArguments EXCEPT !.given = TRUE]

ListSucceeded ==
    /\ Done
    /\ call.name = "list_smart_plugs"
    /\ call.args = EmptyBag
    /\ call.issued # << >>
    /\ call.reply.r = "ok"

\* C5: list_smart_plugs with an empty argument bag succeeds whenever the
\* backend query succeeds, with an array whose every element has boolean on
\* and online fields.
C5_ListBooleanStates ==
    ListSucceeded =>
        /\ call.outcome.kind = "result"
        /\ call.outcome.content.shape = "array"
        /\ \A i \in 1..Len(call.outcome.content.items) :
              HasBooleanState(call.outcome.content.items[i])

\* C6: a call that omits a field of the tool's declared required list fails
\* with InvalidParams before any backend operation is issued.
OmitsRequired ==
    /\ call.pc # "idle"
    /\ call.name \in handlers
    /\ \E f \in tools(variant)[call.name].required : ~In(f, call.args)

C6_RequiredFieldsEnforced ==
    OmitsRequired => (FailedWith(InvalidParams) /\ NoBackendOp)

\* C7: a present argument whose runtime type differs from the declared
\* primitive type makes the call fail with InvalidParams, with no backend
\* operation.
TypeMismatch ==
    /\ call.pc # "idle"
    /\ call.name \in handlers
    /\ \E f \in DOMAIN tools(variant)[call.name].properties :
          In(f, call.args) /\ call.args[f].t # tools(variant)[call.name].properties[f]

C7_TypeMismatchRejected ==
    TypeMismatch => (FailedWith(InvalidParams) /\ NoBackendOp)

\* the bag without the fields the tool's schema does not declare
Strip(v, name, args) ==
    [f \in DOMAIN args |->
        IF f = "given" \/ f \in DOMAIN tools(v)[name].properties THEN args[f] ELSE Absent]

HasUndeclared ==
    /\ call.pc # "idle"
    /\ call.name \in handlers
    /\ Strip(variant, call.name, call.args) # call.args

\* what the call does on the bag without its undeclared fields
StrippedStep == setupTools_start(variant, call.ref, call.name,
                                 Strip(variant, call.name, call.args))

\* C8: undeclared fields in the argument bag change neither the backend
\* operation issued, nor its parameters, nor the result or error returned.
C8_ExtraFieldsIgnored ==
    HasUndeclared =>
        /\ call.issued = (IF StrippedStep.t = "await" THEN << StrippedStep.op >> ELSE << >>)
        /\ Done =>
             call.outcome =
                IF StrippedStep.t = "await"
                THEN measureOperation(setupTools_finish(variant, call.name,
                                                        StrippedStep.params, call.reply))
                ELSE measureOperation(StrippedStep.out)

C8_Witness ==
    /\ HasUndeclared
    /\ Done
    /\ In("extra", call.args)
    /\ call.name = "get_smart_plug_state"
    /\ call.outcome.kind = "result"

\* C9: every failure of a call leaves the call-tool handler as a structured
\* error whose code is in the taxonomy; a vendor rejection leaves it with code
\* InternalError.  (Stated for calls of registered tools; the other names are
\* the subject of C1.)
C9_FailuresStructured ==
    (Failed /\ call.name \in handlers) =>
        /\ call.outcome.kind = "error"
        /\ call.outcome.code \in ErrorCode
        /\ (call.issued # << >> /\ call.reply.r = "reject") => call.outcome.code = InternalError

\* C10: a structured error raised below the dispatcher keeps its code: no
\* layer returns an error that wraps a structured error of another code.
C10_StructuredCodePreserved ==
    (Failed /\ call.outcome.kind = "error" /\ call.outcome.data.kind = "error")
        => call.outcome.data.code = call.outcome.code

----------------------------------------------------------------------------
(* Concurrency, start-up and shutdown.                                     *)

\* the device id and state a successful control_smart_plug result reports,
\* in the device record (legacy, SDM) or in the JSON text (HomeGraph)
Reported(c) ==
    LET content == c.outcome.content
    IN  IF content.shape = "control"
        THEN [deviceId |-> content.device.id, state |-> content.device.state.on]
        ELSE [deviceId |-> content.items[1].text.json.deviceId,
              state    |-> content.items[1].text.json.state]

Requested(c) == [deviceId |-> String(c.args.deviceId).v, state |-> Boolean(c.args.state)]

\* a finished call succeeded exactly if its own backend call did, and reports
\* what its own request asked for
OwnResponse(c) ==
    c.pc = "done" =>
        /\ (c.outcome.kind = "result") <=> (c.reply.r = "ok")
        /\ c.outcome.kind = "result" => Reported(c) = Requested(c)

TwoControlsInFlight ==
    /\ call.pc # "idle" /\ call.name = "control_smart_plug"
    /\ other.pc # "idle" /\ other.name = "control_smart_plug"
    /\ Requested(call).deviceId # Requested(other).deviceId

\* C12: two control_smart_plug requests for different device ids in flight
\* at the same time can each complete whatever the other has done, and each
\* response carries the id of its own request and reports the device id and
\* state of its own request.
C12_NoCrossTalk ==
    TwoControlsInFlight =>
        /\ call.id # other.id
        /\ OwnResponse(call)
        /\ OwnResponse(other)
        /\ call.pc = "await" =>
              ENABLED (\E reply \in VendorReplies(call.op, world) : VendorReply(reply))
        /\ other.pc = "await" =>
              ENABLED (\E reply \in VendorReplies(other.op, world) : VendorReplyOther(reply))

\* the later request resolved first, and successfully
C12_Witness ==
    /\ TwoControlsInFlight
    /\ call.pc = "await"
    /\ other.pc = "done"
    /\ other.outcome.kind = "result"
    /\ Requested(call).state # Requested(other).state

\* a step in which a call ends in failure
FailingStep ==
    /\ call.pc # "done"
    /\ call'.pc = "done"
    /\ Thrown(call'.outcome)

\* the server is up as main left it: connected, both references set
Intact ==
    /\ phase = "serving"
    /\ transport = "connected"
    /\ auth = "client"
    /\ backend = "client"
    /\ exitCode = "none"

\* a valid request that arrives now is dispatched
Dispatches ==
    ENABLED (\E args \in {a \in ArgBags : a.agentUserId # Absent /\ a.extra = Absent} :
                CallTool("a", "list_smart_plugs", args))

\* C13: a failing tool call is reported on that call only: the step in which
\* it fails changes nothing of the process (phase, transport, auth and
\* backend references, dispatch table), the failed call can be answered, and
\* a valid request arriving afterwards is dispatched.
C13_FailureIsLocal ==
    /\ [][FailingStep => (UNCHANGED Process /\ tools(variant)' = tools(variant) /\ Intact')]_vars
    /\ [](Failed => (Intact \/ signal) /\ (Intact => ENABLED Respond))
    /\ []((errors /\ Intact /\ call.pc = "idle") => Dispatches)

\* a call succeeds on a server on which an earlier call failed
C13_Witness ==
    /\ errors
    /\ Intact
    /\ Done
    /\ call.outcome.kind = "result"
    /\ call.name \in handlers

\* start-up cannot obtain a usable credential
Unusable ==
    \/ ~config.readable
    \/ ~config.refreshToken
    \/ ~config.clientId
    \/ ~config.clientSecret
    \/ token = "rejected"

\* the servers whose setupAuth checks the client id and secret and verifies
\* the access token (src/src/index.ts, part_003)
Verifying == variant # "legacy"

\* C14: if start-up cannot obtain a usable credential (config.json
\* unreadable, refreshToken, clientId or clientSecret missing, access-token
\* verification failed), the transport is never connected, no tool call is
\* served, start-up runs on to the exit of the process without waiting for
\* anything, and the exit code is non-zero.
C14_StartupFailureIsFatal ==
    (Verifying /\ Unusable) =>
        /\ transport = "none"
        /\ phase # "serving"
        /\ call = Idle /\ other = Idle
        /\ ~signal
        /\ phase # "exited" =>
              ENABLED (new_GoogleHomeServer \/ initialize_start \/ main_catch \/ exit)
        /\ phase = "exited" => exitCode = "1"

\* the access token could not be verified and the process has exited
C14_Witness ==
    /\ Verifying
    /\ token = "rejected"
    /\ config = Complete
    /\ server = "object"
    /\ phase = "exited"
    /\ exitCode = "1"

Released == auth = "null" /\ backend = "null"

\* C15: a SIGINT can be taken at every point at which main waits or serves;
\* once its handler has run, the references of an existing server object are
\* released before the process exits, and the process exits with code zero.
C15_SigintExitsZeroAfterCleanup ==
    /\ phase \in Interruptible => ENABLED SIGINT
    /\ signal =>
          /\ phase \in {"stopping", "exited"}
          /\ server # "null" => Released
          /\ phase = "stopping" => (exitCode = "none" /\ ENABLED exit)
          /\ phase = "exited" => exitCode = "0"

\* the signal arrived during start-up, while the access token was verified
C15_Witness ==
    /\ signal
    /\ phase = "exited"
    /\ exitCode = "0"
    /\ server = "object"
    /\ Released
    /\ transport = "none"
    /\ token = "unverified"
    /\ variant = "homegraph"

\* C16: whatever the references hold, cleanup leaves both null, and cleanup
\* of what cleanup left changes nothing; where cleanup has run in the
\* process, running it again would change nothing.
C16_CleanupIdempotent ==
    /\ cleanup(This) = [auth |-> "null", backend |-> "null"]
    /\ cleanup(cleanup(This)) = cleanup(This)
    /\ (phase = "stopping" /\ server # "null") => cleanup(This) = This

\* cleanup has run in main's catch, on a server that held a credential but
\* no backend yet
C16_Witness ==
    /\ phase = "stopping"
    /\ ~signal
    /\ server = "object"
    /\ token = "rejected"
    /\ This = [auth |-> "null", backend |-> "null"]

Position(st) == CHOOSE i \in 1..Len(Lifecycle) : Lifecycle[i] = st

\* C18: the connection lifecycle only moves forward through Created,
\* Initializing, Ready, Stopping, Stopped: no step of any execution leads
\* from a state to an earlier one, so no state is entered again once left.
C18_LifecycleForward ==
    [][Position(ConnectionState(phase')) >= Position(ConnectionState(phase))]_vars

\* a server that started, served a call that failed, and was shut down
C18_Witness ==
    /\ ConnectionState(phase) = "Stopped"
    /\ transport = "connected"
    /\ errors

\* setupAuth has returned without throwing
AuthSetUp ==
    /\ config.readable
    /\ config.refreshToken
    /\ Verifying => (config.clientId /\ config.clientSecret /\ token = "verified")

\* the call-tool handler has been entered for c and its outcome has not been
\* handed back yet
Executing(c) == c.pc # "idle"

\* C19: in every state in which a call-tool handler is executing, the
\* authentication setup has succeeded, the transport was connected after it,
\* and the backend reference handed to the handler is not null, also when
\* the shutdown has released the server's own references under the call.
C19_ServesOnlyWhenInitialized ==
    /\ \A c \in {call, other} :
          Executing(c) =>
              /\ AuthSetUp
              /\ c.ref = "client"
              /\ transport = "connected"
              /\ phase \in {"serving", "stopping"}
    /\ phase = "serving" => (AuthSetUp /\ auth = "client" /\ backend = "client")

\* the SIGINT handler has released the references under a suspended call
C19_Witness ==
    /\ phase = "stopping"
    /\ call.pc = "await"
    /\ call.ref = "client"
    /\ backend = "null"
    /\ auth = "null"

----------------------------------------------------------------------------
(* The backend adapter, snapshots, the catalogue.                          *)

\* the vendor rejected the one call the adapter made for this tool call
VendorFailed ==
    /\ Done
    /\ call.issued # << >>
    /\ call.reply.r = "reject"

\* C22: a vendor-call failure inside the backend adapter is surfaced as an
\* error with code InternalError whose data is the vendor's error, and a tool
\* call issues at most one vendor call, whether that call succeeds or fails.
C22_VendorFailureWrappedOnce ==
    /\ Len(call.issued) <= 1
    /\ VendorFailed =>
          /\ call.outcome.kind = "error"
          /\ call.outcome.code = InternalError
          /\ call.outcome.data = Raw("VendorError")

\* the metrics a call of the tool name may write to
Tagged(name) ==
    {"tool_execution_" \o name,
     execute_tool(name) \o "_duration_ms",
     execute_tool(name) \o "_total",
     execute_tool(name) \o "_errors"}

Starts(c)    == Increments(c.writes, "tool_execution_" \o c.name)
Successes(c) == Increments(c.writes, execute_tool(c.name) \o "_total")
Failures(c)  == Increments(c.writes, execute_tool(c.name) \o "_errors")

\* C23: every call-tool request writes exactly one start event when it is
\* taken up and exactly one end event when it ends, all under the name of its
\* tool: tool_execution_<name> is incremented once, and at the end exactly one
\* of execute_tool_<name>_total (the call succeeded) and
\* execute_tool_<name>_errors (the call failed) is incremented once, whether
\* the call succeeded, failed validation, named no tool, or threw in the
\* backend.
C23_OneStartOneEnd ==
    \A c \in {call, other} :
        /\ \A i \in 1..Len(c.writes) : c.writes[i].metric \in Tagged(c.name)
        /\ c.pc = "idle" => c.writes = << >>
        /\ c.pc # "idle" => Starts(c) = 1
        /\ c.pc = "await" => (Successes(c) = 0 /\ Failures(c) = 0)
        /\ c.pc = "done" =>
              /\ Successes(c) + Failures(c) = 1
              /\ Failures(c) = 1 <=> Thrown(c.outcome)
              /\ Failures(c) = 1 => errors

\* a backend exception left the handler as it was thrown, and was counted
C23_Witness ==
    /\ Done
    /\ call.outcome = Raw("VendorError")
    /\ call.writes = << increment("tool_execution_" \o call.name),
                        increment("execute_tool_" \o call.name \o "_errors") >>

\* the tools that return device snapshots
Queries == {"list_smart_plugs", "get_smart_plug_state"}

\* the vendor's queries
QueryApis == {"sdm.list", "sdm.get", "hg.query"}

\* the display name, on flag and online flag of the plug in account w
PlugNow(w) ==
    [name   |-> IF w.customName \notin {NoTrait, ""} THEN w.customName ELSE "X",
     on     |-> w.on = "true",
     online |-> w.status = "ONLINE"]

ShownBy(snapshot) ==
    [name |-> snapshot.name, on |-> snapshot.state.on, online |-> snapshot.state.online]

\* every snapshot of the plug in the result of c says what account w holds;
\* the HomeGraph results carry the vendor's own fields in their JSON text
Fresh(c, w) ==
    LET content == c.outcome.content
    IN  CASE variant = "homegraph" ->
               LET text == content.items[1].text
               IN  (text # Absent /\ (text.json.kind = "device" \/ text.json.has)) =>
                       (text.json.on = w.on /\ text.json.status = w.status)
          [] content.shape = "device" -> ShownBy(content) = PlugNow(w)
          [] OTHER ->
               /\ \A i \in 1..Len(content.items) :
                      content.items[i].id = "X" => ShownBy(content.items[i]) = PlugNow(w)
               /\ w.layout \in {"plug", "mixed"} =>
                      \E i \in 1..Len(content.items) : content.items[i].id = "X"

\* a step in which a query call receives the vendor's answer and succeeds
Answered ==
    /\ call.pc = "await"
    /\ call'.pc = "done"
    /\ call.name \in Queries
    /\ call'.outcome.kind = "result"

\* C24: device snapshots are never cached: a list_smart_plugs or
\* get_smart_plug_state call that returns a result has issued a vendor query
\* of its own and was answered by the vendor, and what the result says of the
\* plug is what the vendor's account holds at the time of the answer, so a
\* change made outside the system before the call is visible in it.
C24_SnapshotsNeverCached ==
    /\ [](((call.pc = "await" \/ (Done /\ call.outcome.kind = "result"))
             /\ call.name \in Queries)
            => /\ Len(call.issued) = 1
               /\ call.issued[1] = call.op
               /\ call.op.api \in QueryApis
               /\ Done => call.reply.r = "ok")
    /\ [][Answered => Fresh(call', world)]_vars

\* after an earlier call, the plug was switched on and renamed outside the
\* system, and the next query shows it
C24_Witness ==
    /\ errors
    /\ Done
    /\ call.name \in Queries
    /\ call.outcome.kind = "result"
    /\ world.on = "true"
    /\ world.customName = NoTrait
    /\ world.layout = "plug"
    /\ Fresh(call, world)
    /\ variant = "homegraph" => world.hgShape = "array"

\* the vendor answered the list query of an SDM or legacy list_smart_plugs call
Listed ==
    /\ Done
    /\ call.name = "list_smart_plugs"
    /\ call.op.api = "sdm.list"
    /\ call.reply.r = "ok"

\* the positions of the outlet records in the vendor's list, and the place of
\* a position among them
OutletAt(devs)   == {i \in 1..Len(devs) : devs[i].type = OUTLET}
PlaceOf(devs, i) == Cardinality({j \in OutletAt(devs) : j <= i})

\* C25: list() returns one snapshot per vendor record of the outlet type, in
\* the vendor's order and nothing else, with id = the device id, name = the
\* custom name if there is one, else the device id, on = the on/off trait
\* (false when absent) and online = (status = "ONLINE"); without devices or
\* without outlets the result is the empty array, not an error.
C25_ListIsOutletsInOrder ==
    Listed =>
        LET devs  == call.reply.data.devices
            items == call.outcome.content.items
        IN  /\ call.outcome.kind = "result"
            /\ call.outcome.content.shape = "array"
            /\ Len(items) = Cardinality(OutletAt(devs))
            /\ \A i \in OutletAt(devs) :
                  LET item == items[PlaceOf(devs, i)]
                  IN  /\ item.id = devs[i].name
                      /\ item.name = (IF devs[i].traits.customName \in {NoTrait, ""}
                                      THEN devs[i].name
                                      ELSE devs[i].traits.customName)
                      /\ item.state.on = (devs[i].traits.on = "true")
                      /\ item.state.online = (devs[i].traits.status = "ONLINE")

\* two plugs around a thermostat, the first plug of the list named by its id
\* and without an on/off trait
C25_Witness ==
    /\ Listed
    /\ Len(call.reply.data.devices) = 3
    /\ Len(call.outcome.content.items) = 2
    /\ call.outcome.content.items[1].id = "Y"
    /\ call.outcome.content.items[2].name = "X"
    /\ ~call.outcome.content.items[2].state.on
    /\ world.on = NoTrait

\* the names the list-tools response advertises
Advertised == DOMAIN tools(variant)

\* C26: the advertised tool names are the keys of the handler table; a call
\* of an advertised name finds its handler and is never answered
\* MethodNotFound, and a call of a name that is not advertised finds no
\* handler.
C26_CatalogueMatchesHandlers ==
    /\ Advertised = handlers
    /\ \A name \in Advertised : Lookup(variant, name) = "own"
    /\ (call.pc # "idle" /\ call.name \in Advertised) => ~FailedWith(MethodNotFound)
    /\ (call.pc # "idle" /\ call.name \notin Advertised) => Lookup(variant, call.name) = "none"

----------------------------------------------------------------------------
(* The legacy server against the modular SDM server.                       *)

\* what server v makes of the request of call c, given the vendor's reply to c
OutcomeOf(v, c) ==
    LET step == setupTools_start(v, c.ref, c.name, c.args)
    IN  IF step.t = "await"
        THEN [issued  |-> << step.op >>,
              outcome |-> IF c.pc = "done"
                          THEN measureOperation(
                                   setupTools_finish(v, c.name, step.params, c.reply))
                          ELSE NoData]
        ELSE [issued |-> << >>, outcome |-> measureOperation(step.out)]

\* id, name, on and online of a device in a result
View(d) ==
    [id     |-> d.id,
     name   |-> IF "name" \in DOMAIN d THEN d.name ELSE "",
     on     |-> d.state.on,
     online |-> d.state.online]

\* what a client can tell of an outcome: success with the devices it shows,
\* or failure with its code
Essence(o) ==
    CASE o.kind = "result" ->
           [kind    |-> "result",
            code    |-> "",
            shape   |-> o.content.shape,
            devices |->
                CASE o.content.shape = "array" ->
                       [i \in 1..Len(o.content.items) |-> View(o.content.items[i])]
                  [] o.content.shape = "device"  -> << View(o.content) >>
                  [] o.content.shape = "control" -> << View(o.content.device) >>
                  [] OTHER -> << >>]
      [] o.kind = "error" ->
           [kind |-> "error", code |-> o.code, shape |-> "", devices |-> << >>]
      [] OTHER ->
           [kind |-> o.kind, code |-> "", shape |-> "", devices |-> << >>]

\* C27: for every tool name and argument bag, against the same vendor
\* reply, the legacy server and the modular SDM server end alike: both
\* succeed showing the same id, name, on and online values, or both fail with
\* the same error code.
C27_LegacyEqualsModular ==
    (variant \in {"legacy", "sdm"} /\ call.pc # "idle") =>
        /\ call.issued = OutcomeOf(variant, call).issued
        /\ Done => call.outcome = OutcomeOf(variant, call).outcome
        /\ Essence(OutcomeOf("legacy", call).outcome)
              = Essence(OutcomeOf("sdm", call).outcome)

----------------------------------------------------------------------------
(* Failing start-up.                                                       *)

\* start-up failed on a constructed server and main's catch block has run
StartupFailed ==
    /\ ~signal
    /\ server = "object"
    /\ phase \in {"stopping", "exited"}

\* C28: when start-up fails after the server object was constructed, in
\* initialize or in connect, the process cannot exit before the catch block
\* of main has run cleanup, and from then on, at the exit too, the auth
\* reference and the backend reference are null, also when the OAuth client
\* had been assigned before the failure.
C28_FailedStartupCleansUp ==
    /\ (phase = "failed" /\ server = "object") => (ENABLED main_catch /\ ~ENABLED exit)
    /\ StartupFailed => Released
    /\ (StartupFailed /\ phase = "stopping") => ENABLED exit

\* connect failed on a server that held the OAuth client and the backend
C28_Witness ==
    /\ StartupFailed
    /\ phase = "exited"
    /\ token = "verified"
    /\ transport = "none"
    /\ Released

----------------------------------------------------------------------------
(* The observability wrapper and the health checks.                        *)

\* what the operation handed to measureOperation for call c settles with:
\* the body of the call-tool handler, run on the request and the vendor's reply
Operation(c) ==
    LET step == setupTools_start(variant, c.ref, c.name, c.args)
    IN  IF step.t = "await"
        THEN setupTools_finish(variant, c.name, step.params, c.reply)
        ELSE step.out

\* C29: measureOperation is transparent: it settles with exactly what its
\* operation settled with, the value it resolved with or the error it
\* rejected with, and it invokes the operation exactly once; so does the
\* logger's wrapper around it.
C29_MeasureOperationTransparent ==
    /\ Done =>
          LET measured == monitor_measureOperation(execute_tool(call.name), Operation(call))
          IN  /\ measured.settled = Operation(call)
              /\ measured.invoked = 1
              /\ call.outcome = Operation(call)
              /\ Rejects(call.outcome) <=> Rejects(Operation(call))
    /\ measureOperation(This) = This

\* a structured error went through the wrapper unchanged and was counted
C29_Witness ==
    /\ Done
    /\ call.outcome = Structured(InvalidParams, NoData)
    /\ Operation(call) = Structured(InvalidParams, NoData)
    /\ Failures(call) = 1

\* the check registered under a name
CheckOf(registry, name) ==
    registry[CHOOSE i \in 1..Len(registry) : registry[i].name = name].check

\* performChecks on the registry resolves with one boolean per registered
\* name: true exactly if the check of that name resolved true
Reports(registry) ==
    \A heapOk \in BOOLEAN :
        LET r == performChecks(registry, heapOk, This)
        IN  /\ r.settled = "resolved"
            /\ DOMAIN r.results = Names(registry)
            /\ \A i \in 1..Len(registry) :
                  /\ r.results[registry[i].name] \in BOOLEAN
                  /\ r.results[registry[i].name]
                        <=> Run(registry[i].check, heapOk, This) = "true"

\* C30: performChecks never rejects and returns exactly one boolean entry
\* per registered check name; a check that throws or rejects is reported as
\* false and the checks after it are still run; registering a check under an
\* existing name replaces the earlier check and adds no entry.
C30_PerformChecksTotal ==
    /\ Cardinality(Names(checks)) = Len(checks)
    /\ Reports(checks)
    /\ DOMAIN health \subseteq Names(checks)
    /\ \A name \in CheckNames, check \in Checks :
          LET registry == registerCheck(checks, name, check)
          IN  /\ Names(registry) = Names(checks) \cup {name}
              /\ Cardinality(Names(registry)) = Len(registry)
              /\ CheckOf(registry, name) = check
              /\ \A kept \in Names(checks) \ {name} :
                    CheckOf(registry, kept) = CheckOf(checks, kept)
              /\ Reports(registry)

\* the memory check was replaced by one that throws and the auth check by
\* one that rejects; the interval published false for both and true for the
\* backend check behind them
C30_Witness ==
    /\ CheckOf(checks, "memory") = "throws"
    /\ CheckOf(checks, "auth") = "rejects"
    /\ Len(checks) = 3
    /\ DOMAIN health = Names(checks)
    /\ ~health["memory"]
    /\ ~health["auth"]
    /\ health[BackendCheck(variant)]

====
